---- MODULE Spec2Model ----
(***************************************************************************)
(* Model of the quiz sheet parser, src/upload.py: the POST /upload/quiz    *)
(* handler parse_quiz_excel.  A request is a content type, a quiz type, a  *)
(* strict-format flag and a file; the handler checks the request, decodes  *)
(* the workbook into a table, scans it row by row and returns one          *)
(* response.                                                               *)
(*                                                                         *)
(* Text is a sequence of one-character strings, so that str(), strip(),    *)
(* rsplit(), join() and lower() are computed character by character.       *)
(* A cell is a tagged value: NaN (empty cell), a text or an integer.       *)
(* An f-string error message is the record of the parts it is built from.  *)
(***************************************************************************)
EXTENDS Integers, Sequences, FiniteSets, TLC

VARIABLES
    pc,                     \* position of the handler
    file_content_type,      \* file.content_type
    type,                   \* form field type
    require_option_format,  \* form field require_option_format
    file_bytes,             \* what the uploaded file holds
    contents,               \* result of await file.read(), "unread" before it
    df_columns,             \* df.columns, in sheet order
    df_len,                 \* number of data rows of df
    index,                  \* loop variable index of df.iterrows(), -1 before the loop
    row,                    \* loop variable row: column name -> cell
    options,                \* options list of the row being processed
    questions,              \* questions list
    response                \* the value returned

vars == <<pc, file_content_type, type, require_option_format, file_bytes,
          contents, df_columns, df_len, index, row, options, questions, response>>

\* Largest number of data rows of a decoded table.
MaxRows == 2

----------------------------------------------------------------------------
(* Texts used as inputs and column names *)

QUESTION == <<"q","u","e","s","t","i","o","n">>
OPT1 == <<"o","p","t","1">>
OPT2 == <<"o","p","t","2">>

NaN == [t |-> "nan"]
Text(s) == [t |-> "str", v |-> s]
Num(n) == [t |-> "int", v |-> n]

T_blank == <<" ", " ">>
T_q1 == <<"W","h","a","t"," ","i","s"," ","2","+","2","?">>
T_q2 == <<" ","Q","\t">>
T_true == <<"4","-","t","r","u","e">>
T_false == <<" ","5"," ","-"," ","F","a","l","s","e"," ">>
T_plain == <<" ","p","l","a","i","n","o","p","t","i","o","n">>
T_multi == <<"u","r","g","e","n","t","-","m","a","t","h","-","t","a","g">>

\* Cells a question column may hold.
QuestionCells == {NaN, Text(T_blank), Text(T_q2)}

\* Cells an option column may hold.
OptionCells == {NaN, Text(T_blank), Text(T_true), Text(T_false), Text(T_plain)}

\* Column layouts a decoded sheet may have.
ColumnLayouts == {<<QUESTION, OPT1>>, <<OPT1, QUESTION, OPT2>>, <<OPT1, OPT2>>}

Range(s) == {s[i] : i \in 1..Len(s)}

\* The rows a table with the given columns may hold.
Rows(columns) ==
    {[c \in Range(columns) |-> IF c = QUESTION THEN q ELSE o[c]] :
        q \in QuestionCells, o \in [Range(columns) \ {QUESTION} -> OptionCells]}

----------------------------------------------------------------------------
(* Python and pandas primitives *)

Whitespace == {" ", "\t", "\n", "\r"}

Digit(d) == CASE d = 0 -> "0" [] d = 1 -> "1" [] d = 2 -> "2" [] d = 3 -> "3"
              [] d = 4 -> "4" [] d = 5 -> "5" [] d = 6 -> "6" [] d = 7 -> "7"
              [] d = 8 -> "8" [] d = 9 -> "9"

RECURSIVE NatToStr(_)
NatToStr(n) == IF n < 10 THEN <<Digit(n)>>
               ELSE Append(NatToStr(n \div 10), Digit(n % 10))

\* str(x) of a cell value
PyStr(cell) ==
    CASE cell.t = "str" -> cell.v
      [] cell.t = "int" -> IF cell.v < 0 THEN <<"-">> \o NatToStr(-cell.v)
                           ELSE NatToStr(cell.v)
      [] cell.t = "nan" -> <<"n","a","n">>

\* pd.isna(x)
IsNa(cell) == cell.t = "nan"

\* s.strip()
Strip(s) ==
    LET keep == {i \in 1..Len(s) : s[i] \notin Whitespace}
    IN  IF keep = {} THEN <<>>
        ELSE LET first == CHOOSE i \in keep : \A j \in keep : i <= j
                 last == CHOOSE i \in keep : \A j \in keep : j <= i
             IN  SubSeq(s, first, last)

\* RSplit1 splitting at the first hyphen, as s.split("-", 1) would
RSplit1_First(s) ==
    LET hy == {i \in 1..Len(s) : s[i] = "-"}
    IN  IF hy = {} THEN <<s>>
        ELSE LET k == CHOOSE i \in hy : \A j \in hy : i <= j
             IN  <<SubSeq(s, 1, k - 1), SubSeq(s, k + 1, Len(s))>>

\* s.rsplit("-", 1): the list of parts
RSplit1(s) ==
    LET hy == {i \in 1..Len(s) : s[i] = "-"}
    IN  IF hy = {} THEN <<s>>
        ELSE LET k == CHOOSE i \in hy : \A j \in hy : j <= i
             IN  <<SubSeq(s, 1, k - 1), SubSeq(s, k + 1, Len(s))>>

\* "-".join(parts)
RECURSIVE JoinHyphen(_)
JoinHyphen(parts) ==
    IF parts = <<>> THEN <<>>
    ELSE IF Len(parts) = 1 THEN parts[1]
    ELSE parts[1] \o <<"-">> \o JoinHyphen(Tail(parts))

LowerChar(c) ==
    CASE c = "A" -> "a" [] c = "B" -> "b" [] c = "C" -> "c" [] c = "D" -> "d"
      [] c = "E" -> "e" [] c = "F" -> "f" [] c = "G" -> "g" [] c = "H" -> "h"
      [] c = "I" -> "i" [] c = "J" -> "j" [] c = "K" -> "k" [] c = "L" -> "l"
      [] c = "M" -> "m" [] c = "N" -> "n" [] c = "O" -> "o" [] c = "P" -> "p"
      [] c = "Q" -> "q" [] c = "R" -> "r" [] c = "S" -> "s" [] c = "T" -> "t"
      [] c = "U" -> "u" [] c = "V" -> "v" [] c = "W" -> "w" [] c = "X" -> "x"
      [] c = "Y" -> "y" [] c = "Z" -> "z" [] OTHER -> c

\* s.lower()
Lower(s) == [i \in 1..Len(s) |-> LowerChar(s[i])]

S_true == <<"t","r","u","e">>
S_false == <<"f","a","l","s","e">>

----------------------------------------------------------------------------
(* Responses *)

ExcelTypes == {"application/vnd.openxmlformats-officedocument.spreadsheetml.sheet",
               "application/vnd.ms-excel"}

QuizTypes == {"objective", "tag-based"}

StatusBadRequest == 400
StatusOk == 200

NoResponse == [status_code |-> 0, content |-> [pending |-> TRUE]]

JSONResponse(status, err) == [status_code |-> status, content |-> [error |-> err]]

InvalidFileType == [msg |-> "Invalid file type. Only Excel files are allowed."]
InvalidQuizType == [msg |-> "Invalid quiz type. Must be 'objective' or 'tag'."]
ReadError == [msg |-> "Error reading Excel file", detail |-> "str(e)"]
NoQuestionColumn == [msg |-> "Excel file must contain a 'question' column."]
NoValidQuestions == [msg |-> "No valid questions found in the Excel file."]

OptionFormatError(row_num, col, option_text, e) ==
    [msg |-> "Invalid option format", row |-> row_num, column |-> col,
     text |-> option_text, detail |-> e]

NoCorrectAnswer(row_num) ==
    [msg |-> "Objective question must have at least one correct answer",
     row |-> row_num]

Success(qs) == [status_code |-> StatusOk,
                content |-> [questions |-> qs, count |-> Len(qs)]]

----------------------------------------------------------------------------
(* The row scan, lines 73-149 *)

\* QuestionIsBlank without the strip test
QuestionIsBlank_NaOnly(raw_question) == IsNa(raw_question)

\* line 76: the question cell is missing or blank
QuestionIsBlank(raw_question) ==
    IsNa(raw_question) \/ Strip(PyStr(raw_question)) = <<>>

\* line 87: the option cell is missing or blank
OptionIsBlank(option_raw) ==
    IsNa(option_raw) \/ Strip(PyStr(option_raw)) = <<>>

\* lines 95-110: the strict format.  ok = FALSE is the raised ValueError, e its text.
ParseStrict(ty, option_text) ==
    LET parts == RSplit1(option_text)
        value_parts == SubSeq(parts, 1, Len(parts) - 1)
        value == Strip(JoinHyphen(value_parts))
        extra == Strip(parts[Len(parts)])
    IN  IF value = <<>> \/ extra = <<>>
        THEN [ok |-> FALSE, e |-> "Empty value or property"]
        ELSE IF ty = "objective"
        THEN IF Lower(extra) \notin {S_true, S_false}
             THEN [ok |-> FALSE, e |-> "Property must be 'true' or 'false'"]
             ELSE [ok |-> TRUE,
                   option |-> [text |-> value, isCorrect |-> (Lower(extra) = S_true)]]
        ELSE [ok |-> TRUE, option |-> [text |-> value, tag |-> extra]]

\* lines 122-127: no format required
ParseLenient(ty, col, option_text) ==
    IF ty = "objective"
    THEN [text |-> option_text, isCorrect |-> FALSE]
    ELSE [text |-> option_text, tag |-> col]

\* ScanColumns going on after a malformed cell and reporting the last one
RECURSIVE ScanColumns_KeepGoing(_, _, _, _, _, _)
ScanColumns_KeepGoing(ty, strict, r, columns, i, opts) ==
    IF i > Len(columns) THEN [failed |-> FALSE, options |-> opts]
    ELSE LET col == columns[i] IN
         IF col = QUESTION THEN ScanColumns_KeepGoing(ty, strict, r, columns, i + 1, opts)
         ELSE IF OptionIsBlank(r[col])
         THEN ScanColumns_KeepGoing(ty, strict, r, columns, i + 1, opts)
         ELSE LET option_text == Strip(PyStr(r[col])) IN
              IF strict
              THEN LET p == ParseStrict(ty, option_text) IN
                   IF p.ok
                   THEN ScanColumns_KeepGoing(ty, strict, r, columns, i + 1,
                                              Append(opts, p.option))
                   ELSE LET rest == ScanColumns_KeepGoing(ty, strict, r, columns,
                                                          i + 1, opts)
                        IN  IF rest.failed THEN rest
                            ELSE [failed |-> TRUE, options |-> opts, col |-> col,
                                  option_text |-> option_text, e |-> p.e]
              ELSE ScanColumns_KeepGoing(ty, strict, r, columns, i + 1,
                               Append(opts, ParseLenient(ty, col, option_text)))

\* lines 82-127: the loop over df.columns from position i on, opts built so far.
\* failed = TRUE is the return of line 114, out of the except of line 112.
RECURSIVE ScanColumns(_, _, _, _, _, _)
ScanColumns(ty, strict, r, columns, i, opts) ==
    IF i > Len(columns) THEN [failed |-> FALSE, options |-> opts]
    ELSE LET col == columns[i] IN
         IF col = QUESTION THEN ScanColumns(ty, strict, r, columns, i + 1, opts)
         ELSE IF OptionIsBlank(r[col])
         THEN ScanColumns(ty, strict, r, columns, i + 1, opts)
         ELSE LET option_text == Strip(PyStr(r[col])) IN
              IF strict
              THEN LET p == ParseStrict(ty, option_text) IN
                   IF p.ok
                   THEN ScanColumns(ty, strict, r, columns, i + 1,
                                    Append(opts, p.option))
                   ELSE [failed |-> TRUE, options |-> opts, col |-> col,
                         option_text |-> option_text, e |-> p.e]
              ELSE ScanColumns(ty, strict, r, columns, i + 1,
                               Append(opts, ParseLenient(ty, col, option_text)))

\* ChecksCorrectAnswer ignoring the format flag
ChecksCorrectAnswer_AnyMode(ty, strict) == ty = "objective"

\* line 132: the rows that get the correct-answer check
ChecksCorrectAnswer(ty, strict) == ty = "objective" /\ strict

\* AnyCorrect as any(options): true of every non-empty list
AnyCorrect_NonEmpty(opts) == opts # <<>>

\* line 133: any(option["isCorrect"] for option in options)
AnyCorrect(opts) == \E k \in 1..Len(opts) : opts[k].isCorrect

\* NoOptions never skipping
NoOptions_Never(opts) == FALSE

\* line 129: the row is skipped when it has no options
NoOptions(opts) == opts = <<>>

\* QuestionRecord with the question under the key text
QuestionRecord_Text(question_text, opts) ==
    [text |-> question_text, options |-> opts]

\* line 142: the emitted record
QuestionRecord(question_text, opts) ==
    [question |-> question_text, options |-> opts]

\* AppendQuestion inserting at the front
AppendQuestion_Front(qs, q) == <<q>> \o qs

\* line 142: questions.append(...)
AppendQuestion(qs, q) == Append(qs, q)

----------------------------------------------------------------------------
(* The handler, one action per step *)

Init ==
    /\ pc = "content_type"
    /\ file_content_type \in ExcelTypes \cup {"text/csv"}
    /\ type \in QuizTypes \cup {"tag"}
    /\ require_option_format \in BOOLEAN
    /\ file_bytes \in {"workbook", "corrupt"}
    /\ contents = "unread"
    /\ df_columns = <<>>
    /\ df_len = 0
    /\ index = -1
    /\ row = <<>>
    /\ options = <<>>
    /\ questions = <<>>
    /\ response = NoResponse

Return(resp) ==
    /\ response' = resp
    /\ pc' = "done"

\* line 43
ContentTypeAllowed(ct) == ct \in ExcelTypes

\* lines 43-47
CheckContentType ==
    /\ pc = "content_type"
    /\ IF ~ContentTypeAllowed(file_content_type)
       THEN Return(JSONResponse(StatusBadRequest, InvalidFileType))
       ELSE pc' = "quiz_type" /\ UNCHANGED response
    /\ UNCHANGED <<file_content_type, type, require_option_format, file_bytes,
                   contents, df_columns, df_len, index, row, options, questions>>

\* QuizTypeAllowed also taking "tag", the name the message and docstring use
QuizTypeAllowed_AlsoTag(ty) == ty \in QuizTypes \cup {"tag"}

\* line 50
QuizTypeAllowed(ty) == ty \in QuizTypes

\* lines 50-54
CheckQuizType ==
    /\ pc = "quiz_type"
    /\ IF ~QuizTypeAllowed(type)
       THEN Return(JSONResponse(StatusBadRequest, InvalidQuizType))
       ELSE pc' = "read" /\ UNCHANGED response
    /\ UNCHANGED <<file_content_type, type, require_option_format, file_bytes,
                   contents, df_columns, df_len, index, row, options, questions>>

\* lines 56-62: reading the upload and decoding the first sheet
ReadExcel ==
    /\ pc = "read"
    /\ contents' = file_bytes
    /\ IF file_bytes = "corrupt"
       THEN /\ Return(JSONResponse(StatusBadRequest, ReadError))
            /\ UNCHANGED <<df_columns, df_len>>
       ELSE /\ \E columns \in ColumnLayouts, n \in 0..MaxRows :
                  df_columns' = columns /\ df_len' = n
            /\ pc' = "columns"
            /\ UNCHANGED response
    /\ UNCHANGED <<file_content_type, type, require_option_format, file_bytes,
                   index, row, options, questions>>

\* line 65
HasQuestionColumn(columns) == QUESTION \in Range(columns)

\* lines 65-71
CheckColumns ==
    /\ pc = "columns"
    /\ IF ~HasQuestionColumn(df_columns)
       THEN Return(JSONResponse(StatusBadRequest, NoQuestionColumn))
       ELSE pc' = "rows" /\ UNCHANGED response
    /\ questions' = <<>>
    /\ UNCHANGED <<file_content_type, type, require_option_format, file_bytes,
                   contents, df_columns, df_len, index, row, options>>

\* lines 73-149: one iteration of the loop over df.iterrows(), r the row it yields
\* (index is the position of the row, the sheet having a default RangeIndex).
\* No statement of the body raises on a NaN, text or integer cell outside the
\* inner try, so the except of line 144 has no case here.
IterRow(r) ==
    /\ index' = index + 1
    /\ row' = r
    /\ IF QuestionIsBlank(r[QUESTION])
       THEN UNCHANGED <<pc, response, options, questions>>
       ELSE LET question_text == Strip(PyStr(r[QUESTION]))
                scan == ScanColumns(type, require_option_format, r, df_columns,
                                    1, <<>>)
                row_num == index' + 2
            IN  /\ options' = scan.options
                /\ IF scan.failed
                   THEN /\ Return(JSONResponse(StatusBadRequest,
                                  OptionFormatError(row_num, scan.col,
                                                    scan.option_text, scan.e)))
                        /\ UNCHANGED questions
                   ELSE IF NoOptions(scan.options)
                   THEN UNCHANGED <<pc, response, questions>>
                   ELSE IF ChecksCorrectAnswer(type, require_option_format)
                           /\ ~AnyCorrect(scan.options)
                   THEN /\ Return(JSONResponse(StatusBadRequest,
                                               NoCorrectAnswer(row_num)))
                        /\ UNCHANGED questions
                   ELSE /\ questions' = AppendQuestion(questions,
                                 QuestionRecord(question_text, scan.options))
                        /\ UNCHANGED <<pc, response>>
    /\ UNCHANGED <<file_content_type, type, require_option_format, file_bytes,
                   contents, df_columns, df_len>>

ProcessRow ==
    /\ pc = "rows"
    /\ index + 1 < df_len
    /\ \E r \in Rows(df_columns) : IterRow(r)

\* Finish without the test for an empty list
Finish_AlwaysSuccess ==
    /\ pc = "rows"
    /\ index + 1 = df_len
    /\ Return(Success(questions))
    /\ UNCHANGED <<file_content_type, type, require_option_format, file_bytes,
                   contents, df_columns, df_len, index, row, options, questions>>

\* lines 151-157: after the loop
Finish ==
    /\ pc = "rows"
    /\ index + 1 = df_len
    /\ IF questions = <<>>
       THEN Return(JSONResponse(StatusBadRequest, NoValidQuestions))
       ELSE Return(Success(questions))
    /\ UNCHANGED <<file_content_type, type, require_option_format, file_bytes,
                   contents, df_columns, df_len, index, row, options, questions>>

Next ==
    \/ CheckContentType
    \/ CheckQuizType
    \/ ReadExcel
    \/ CheckColumns
    \/ ProcessRow
    \/ Finish

Spec == Init /\ [][Next]_vars

----------------------------------------------------------------------------
(* The cell formats on their own: a one-row sheet with columns question,     *)
(* opt1, the question cell a text and the option cell drawn from CellInputs. *)

Pads == {<<>>, <<" ">>}
CellValues == {<<>>, <<" ">>, <<"4">>, <<"u","r","g","e","n","t","-","m","a","t","h">>}
CellSeparators == {<<>>, <<"-">>, <<" ","-"," ">>}
CellExtras == {<<>>, <<"t","r","u","e">>, <<"T","R","U","E">>,
               <<"F","a","l","s","e">>, <<"y","e","s">>, <<"t","a","g">>}

CellInputs ==
    {NaN, Num(7), Num(-3)} \cup
    {Text(a \o v \o s \o x \o b) :
        a \in Pads, v \in CellValues, s \in CellSeparators, x \in CellExtras,
        b \in Pads}

CellRows ==
    {[c \in {QUESTION, OPT1} |-> IF c = QUESTION THEN Text(q) ELSE cell] :
        q \in {T_q1, T_q2}, cell \in CellInputs}

\* The handler at the head of the row loop, for the one-row sheet.
InitCell ==
    /\ pc = "rows"
    /\ file_content_type \in ExcelTypes
    /\ type \in QuizTypes
    /\ require_option_format \in BOOLEAN
    /\ file_bytes = "workbook"
    /\ contents = "workbook"
    /\ df_columns = <<QUESTION, OPT1>>
    /\ df_len = 1
    /\ index = -1
    /\ row = <<>>
    /\ options = <<>>
    /\ questions = <<>>
    /\ response = NoResponse

ProcessCellRow ==
    /\ pc = "rows"
    /\ index + 1 < df_len
    /\ \E r \in CellRows : IterRow(r)

NextCell ==
    \/ ProcessCellRow
    \/ Finish

SpecCell == InitCell /\ [][NextCell]_vars

----------------------------------------------------------------------------
(* Vocabulary of the properties, stated without the operators of the scan *)

\* s without its leading and trailing whitespace
Trim(s) ==
    LET inner == {k \in 1..Len(s) : s[k] \notin Whitespace}
    IN  IF inner = {} THEN <<>>
        ELSE LET lo == CHOOSE m \in inner : \A n \in inner : m <= n
                 hi == CHOOSE m \in inner : \A n \in inner : n <= m
             IN  [k \in 1..(hi - lo + 1) |-> s[lo + k - 1]]

\* the text a cell shows
CellText(cell) == IF cell.t = "str" THEN cell.v ELSE PyStr(cell)

CellBlank(cell) == cell = NaN \/ Trim(CellText(cell)) = <<>>

HasHyphen(t) == \E k \in 1..Len(t) : t[k] = "-"

LastHyphen(t) ==
    CHOOSE k \in 1..Len(t) : t[k] = "-" /\ \A j \in (k + 1)..Len(t) : t[j] # "-"

ValueOf(t) == Trim(SubSeq(t, 1, LastHyphen(t) - 1))
ExtraOf(t) == Trim(SubSeq(t, LastHyphen(t) + 1, Len(t)))

TrueSpellings ==
    {<<a, b, c, d>> : a \in {"t","T"}, b \in {"r","R"}, c \in {"u","U"},
                      d \in {"e","E"}}
FalseSpellings ==
    {<<a, b, c, d, e>> : a \in {"f","F"}, b \in {"a","A"}, c \in {"l","L"},
                         d \in {"s","S"}, e \in {"e","E"}}

\* the cell text has the form value-extra the quiz type accepts
WellFormed(ty, t) ==
    /\ HasHyphen(t)
    /\ ValueOf(t) # <<>>
    /\ ExtraOf(t) # <<>>
    /\ ty = "objective" => ExtraOf(t) \in TrueSpellings \cup FalseSpellings

\* the option a well-formed cell stands for
StrictOption(ty, t) ==
    IF ty = "objective"
    THEN [text |-> ValueOf(t), isCorrect |-> (ExtraOf(t) \in TrueSpellings)]
    ELSE [text |-> ValueOf(t), tag |-> ExtraOf(t)]

\* the option columns of the sheet whose cell in row r is not blank, in sheet order
FilledColumns(r) ==
    LET Filled(c) == c # QUESTION /\ ~CellBlank(r[c])
    IN  SelectSeq(df_columns, Filled)

\* the filled columns of row r whose cell is malformed, as positions
Malformed(r) ==
    {k \in 1..Len(FilledColumns(r)) :
        ~WellFormed(type, CellText(r[FilledColumns(r)[k]]))}

\* a row of the loop has been iterated and its question cell is not blank
RowScanned == index >= 0 /\ ~CellBlank(row[QUESTION])

IsError(msg) ==
    /\ response.status_code = StatusBadRequest
    /\ response.content.error.msg = msg

MsgFormat == "Invalid option format"
MsgNoCorrect == "Objective question must have at least one correct answer"

\* the option the k-th filled cell of row r stands for
RowOption(r, k) ==
    LET col == FilledColumns(r)[k]
    IN  IF require_option_format
        THEN StrictOption(type, CellText(r[col]))
        ELSE IF type = "objective"
        THEN [text |-> Trim(CellText(r[col])), isCorrect |-> FALSE]
        ELSE [text |-> Trim(CellText(r[col])), tag |-> col]

\* the options the filled cells of row r stand for, in sheet order
RowOptions(r) == [k \in 1..Len(FilledColumns(r)) |-> RowOption(r, k)]

\* the scan of row r ends the request with an error
RowAborts(r) ==
    /\ ~CellBlank(r[QUESTION])
    /\ require_option_format
    /\ \/ Malformed(r) # {}
       \/ /\ type = "objective"
          /\ FilledColumns(r) # <<>>
          /\ \A k \in 1..Len(FilledColumns(r)) : ~RowOption(r, k).isCorrect

\* a response, once returned, is final
Returned == [][pc = "done" => UNCHANGED vars]_vars

----------------------------------------------------------------------------
(* C1 *)

\* C1: in a success result count is the number of questions and every
\* question has a non-empty options list; no question with an empty options
\* list is ever collected.
C1_CountAndNonEmptyOptions ==
    /\ \A i \in 1..Len(questions) : questions[i].options # <<>>
    /\ response.status_code = StatusOk =>
          /\ response.content.count = Len(response.content.questions)
          /\ \A i \in 1..Len(response.content.questions) :
                Len(response.content.questions[i].options) >= 1

\* a success result of one question, returned after a second row with a question
\* text and only blank option cells was dropped
C1_Witness ==
    /\ pc = "done"
    /\ response.status_code = StatusOk
    /\ response.content.count = 1
    /\ index = 1
    /\ ~CellBlank(row[QUESTION])
    /\ FilledColumns(row) = <<>>

----------------------------------------------------------------------------
(* C2 *)

\* C2: objective type, strict format.  Every collected question, and so every
\* question of a success result, has an option with isCorrect = TRUE; a row
\* with a question text whose filled option cells are all well-formed and none
\* of them true ends the request with the correct-answer error naming row
\* index + 2; and nothing runs after that response.
C2_CorrectAnswerRequired ==
    /\ [](type = "objective" /\ require_option_format =>
            /\ \A i \in 1..Len(questions) :
                  \E k \in 1..Len(questions[i].options) :
                      questions[i].options[k].isCorrect
            /\ response.status_code = StatusOk =>
                  response.content.questions = questions
            /\ (RowScanned /\ Malformed(row) = {} /\ FilledColumns(row) # <<>>
                /\ \A k \in 1..Len(FilledColumns(row)) : ~RowOption(row, k).isCorrect)
               => /\ pc = "done"
                  /\ response = JSONResponse(StatusBadRequest,
                                             NoCorrectAnswer(index + 2)))
    /\ Returned

\* the first row of a two-row sheet holds 5-false only: the request failed on
\* it, naming row 2, with the second row never read
C2_Witness ==
    /\ type = "objective" /\ require_option_format
    /\ df_len = 2 /\ index = 0
    /\ df_columns = <<OPT1, QUESTION, OPT2>>
    /\ row[OPT1] = Text(T_false) /\ row[OPT2] = Text(T_false)
    /\ row[QUESTION] = Text(T_q2)
    /\ pc = "done"
    /\ IsError(MsgNoCorrect)
    /\ response.content.error.row = 2

----------------------------------------------------------------------------
(* C3 *)

\* C3: an error response has status 400 and the error field only; a row with a
\* question text and a malformed cell ends the request with the format error of
\* its first malformed cell in column order, whatever the cells after it hold;
\* the correct-answer error comes only from a row without a malformed cell; and
\* after the response no further row is read.
C3_FirstErrorOnly ==
    /\ [](/\ response.status_code # StatusOk /\ pc = "done" =>
               /\ response.status_code = StatusBadRequest
               /\ DOMAIN response.content = {"error"}
          /\ (require_option_format /\ RowScanned /\ Malformed(row) # {}) =>
               LET k == CHOOSE m \in Malformed(row) : \A n \in Malformed(row) : m <= n
                   col == FilledColumns(row)[k]
               IN  /\ pc = "done"
                   /\ IsError(MsgFormat)
                   /\ response.content.error.row = index + 2
                   /\ response.content.error.column = col
                   /\ response.content.error.text = Trim(CellText(row[col]))
                   /\ options = [j \in 1..(k - 1) |-> RowOption(row, j)]
          /\ (pc = "done" /\ (IsError(MsgFormat) \/ IsError(MsgNoCorrect))) =>
               /\ RowAborts(row)
               /\ response.content.error.row = index + 2
          /\ (pc = "done" /\ IsError(MsgNoCorrect)) => Malformed(row) = {})
    /\ Returned

\* the second row fails at opt1 while its opt2 holds a well-formed cell and the
\* first row gave a question: the response is the format error for opt1 alone
C3_Witness ==
    /\ require_option_format /\ type = "objective"
    /\ df_columns = <<OPT1, QUESTION, OPT2>>
    /\ index = 1
    /\ Len(questions) = 1
    /\ row[QUESTION] = Text(T_q2)
    /\ row[OPT1] = Text(T_plain) /\ row[OPT2] = Text(T_true)
    /\ pc = "done"
    /\ IsError(MsgFormat)
    /\ response.content.error.column = OPT1
    /\ response.content.error.row = 3

----------------------------------------------------------------------------
(* C4, under SpecCell *)

\* what the strict format makes of the non-blank cell of column opt1, the
\* format error echoing the text echo
StrictCellOutcome(echo) ==
    LET t == CellText(row[OPT1])
    IN  IF WellFormed(type, t)
        THEN /\ options = <<StrictOption(type, t)>>
             /\ ~IsError(MsgFormat)
        ELSE /\ pc = "done"
             /\ options = <<>>
             /\ IsError(MsgFormat)
             /\ response.content.error.row = index + 2
             /\ response.content.error.column = OPT1
             /\ response.content.error.text = echo

\* C4 as stated: in strict mode a non-blank option cell is split at its last
\* hyphen into trimmed value and extra; without a hyphen, or with an empty
\* value or extra, or (objective) an extra other than true/false in any case,
\* the request fails with a format error naming row index + 2, the column and
\* the raw cell text; otherwise the option is {text: value, tag: extra} or
\* {text: value, isCorrect: lowercase(extra) = "true"}.
C4_EchoesRawCell ==
    (require_option_format /\ index = 0 /\ ~CellBlank(row[OPT1]))
        => StrictCellOutcome(CellText(row[OPT1]))

\* C4 amended: the same, the format error echoing the cell text without its
\* leading and trailing whitespace.
C4_StrictCellFormat ==
    (require_option_format /\ index = 0 /\ ~CellBlank(row[OPT1]))
        => StrictCellOutcome(Trim(CellText(row[OPT1])))

\* the cell urgent-math-tag of a tag-based quiz gave text urgent-math, tag tag
C4_Witness ==
    /\ require_option_format /\ type = "tag-based"
    /\ index = 0
    /\ row[OPT1] = Text(T_multi)
    /\ options = <<[text |-> <<"u","r","g","e","n","t","-","m","a","t","h">>,
                    tag |-> <<"t","a","g">>]>>

----------------------------------------------------------------------------
(* C5 *)

\* C5: in lenient mode no request fails with a format error or with the
\* correct-answer error, and a scanned row's options are, cell by cell,
\* {text: trimmed cell text, isCorrect: FALSE} for the objective type and
\* {text: trimmed cell text, tag: column name} for the tag-based type.
C5_LenientOptions ==
    ~require_option_format =>
        /\ ~IsError(MsgFormat)
        /\ ~IsError(MsgNoCorrect)
        /\ RowScanned =>
              /\ Len(options) = Len(FilledColumns(row))
              /\ \A k \in 1..Len(options) :
                    LET col == FilledColumns(row)[k]
                        text == Trim(CellText(row[col]))
                    IN  IF type = "objective"
                        THEN options[k] = [text |-> text, isCorrect |-> FALSE]
                        ELSE options[k] = [text |-> text, tag |-> col]
        /\ \A i \in 1..Len(questions) : \A k \in 1..Len(questions[i].options) :
              IF type = "objective"
              THEN questions[i].options[k].isCorrect = FALSE
              ELSE questions[i].options[k].tag \in Range(df_columns) \ {QUESTION}

\* a lenient objective request succeeded on a row holding plainoption and
\* 4-true, both kept as texts that are not correct
C5_Witness ==
    /\ ~require_option_format /\ type = "objective"
    /\ pc = "done"
    /\ response.status_code = StatusOk
    /\ row[QUESTION] = Text(T_q2)
    /\ df_columns = <<OPT1, QUESTION, OPT2>>
    /\ row[OPT1] = Text(T_plain) /\ row[OPT2] = Text(T_true)
    /\ options = <<[text |-> <<"p","l","a","i","n","o","p","t","i","o","n">>,
                    isCorrect |-> FALSE],
                   [text |-> T_true, isCorrect |-> FALSE]>>

----------------------------------------------------------------------------
(* C6 *)

\* C6: the iteration of a row whose question cell is missing or blank changes
\* neither the questions nor the response, whatever its option cells hold, and
\* leaves the handler in the row loop.
C6_BlankQuestionSkipped ==
    [][(index' # index /\ CellBlank(row'[QUESTION])) =>
          /\ questions' = questions
          /\ response' = response
          /\ pc' = "rows"]_vars

\* strict objective request: the first of two rows has a blank question, a
\* malformed opt1 and an opt2 that is not correct; it was skipped and the
\* second row is about to be read
C6_Witness ==
    /\ require_option_format /\ type = "objective"
    /\ df_columns = <<OPT1, QUESTION, OPT2>>
    /\ df_len = 2 /\ index = 0
    /\ row[QUESTION] = Text(T_blank)
    /\ row[OPT1] = Text(T_plain) /\ row[OPT2] = Text(T_false)
    /\ pc = "rows"
    /\ questions = <<>>
    /\ response = NoResponse
    /\ ENABLED ProcessRow

----------------------------------------------------------------------------
(* C7 *)

----------------------------------------------------------------------------
(* C8 *)

\* all rows of the table were iterated, none ended the request
AllRowsProcessed ==
    /\ pc = "done"
    /\ contents = "workbook"
    /\ QUESTION \in Range(df_columns)
    /\ index + 1 = df_len
    /\ index >= 0 => ~RowAborts(row)

\* C8: when all rows were processed without an aborting error, the response is
\* the no-valid-questions error if no row gave a question, and otherwise the
\* success result with count >= 1; a table of no rows, of blank questions only
\* or of blank option cells only gives the error.
C8_EmptyResult ==
    /\ AllRowsProcessed =>
          IF questions = <<>>
          THEN response = JSONResponse(StatusBadRequest, NoValidQuestions)
          ELSE /\ response.status_code = StatusOk
               /\ response.content.questions = questions
               /\ response.content.count >= 1
    /\ (AllRowsProcessed /\ df_len = 0) => questions = <<>>
    /\ (AllRowsProcessed /\ df_len = 1
        /\ (CellBlank(row[QUESTION]) \/ FilledColumns(row) = <<>>))
          => questions = <<>>

\* two rows whose last has a question text and only blank option cells: the
\* no-valid-questions error
C8_Witness ==
    /\ AllRowsProcessed
    /\ df_len = 2
    /\ row[QUESTION] = Text(T_q2)
    /\ FilledColumns(row) = <<>>
    /\ response = JSONResponse(StatusBadRequest, NoValidQuestions)

----------------------------------------------------------------------------
(* C9, under SpecCell *)

\* the request of the example has been answered
C9_Example ==
    /\ pc = "done"
    /\ type = "objective" /\ require_option_format
    /\ contents = "workbook"
    /\ df_columns = <<QUESTION, OPT1>>
    /\ df_len = 1 /\ index = 0
    /\ row[QUESTION] = Text(T_q1)
    /\ row[OPT1] = Text(T_true)

\* C9 as stated: the example yields one question record with the question
\* string in a field named text, and count 1.
C9_RecordFieldText ==
    C9_Example =>
        response = [status_code |-> StatusOk,
                    content |-> [questions |->
                                    <<[text |-> T_q1,
                                       options |-> <<[text |-> <<"4">>,
                                                      isCorrect |-> TRUE]>>]>>,
                                 count |-> 1]]

\* C9 amended: the example yields one question record with the question string
\* in a field named question, and count 1; every question record has exactly
\* the fields question and options, the question being the trimmed cell text.
C9_RecordFieldQuestion ==
    /\ C9_Example =>
        response = [status_code |-> StatusOk,
                    content |-> [questions |->
                                    <<[question |-> T_q1,
                                       options |-> <<[text |-> <<"4">>,
                                                      isCorrect |-> TRUE]>>]>>,
                                 count |-> 1]]
    /\ \A i \in 1..Len(questions) :
          /\ DOMAIN questions[i] = {"question", "options"}
          /\ questions[i].question = Trim(CellText(row[QUESTION]))
          /\ questions[i].options = options
    /\ response.status_code = StatusOk => response.content.questions = questions

\* the example request was answered with a success result of one question
C9_Witness ==
    /\ C9_Example
    /\ response.status_code = StatusOk
    /\ response.content.count = 1

----------------------------------------------------------------------------
(* C10 *)

\* C10: the questions list only grows at its end, by the question of the row
\* just iterated, whose options are one per filled option cell of that row in
\* column order; a success result returns that list.
C10_OrderPreserved ==
    /\ [][questions' # questions =>
            /\ index' = index + 1
            /\ questions' = Append(questions,
                   [question |-> Trim(CellText(row'[QUESTION])),
                    options |-> RowOptions(row')])]_vars
    /\ [](response.status_code = StatusOk =>
            /\ response.content.questions = questions
            /\ Len(questions) <= index + 1)

\* two rows gave two questions, the second with the options of opt1 and opt2 in
\* that order though the question column lies between them
C10_Witness ==
    /\ pc = "done"
    /\ response.status_code = StatusOk
    /\ type = "tag-based" /\ ~require_option_format
    /\ df_columns = <<OPT1, QUESTION, OPT2>>
    /\ Len(response.content.questions) = 2
    /\ response.content.questions[1].question = <<"Q">>
    /\ response.content.questions[1].options = <<[text |-> T_true, tag |-> OPT2]>>
    /\ response.content.questions[2].question = <<"Q">>
    /\ response.content.questions[2].options =
          <<[text |-> T_true, tag |-> OPT1],
            [text |-> <<"5"," ","-"," ","F","a","l","s","e">>, tag |-> OPT2]>>

====
